---- MODULE Spec2Model ----
(***************************************************************************)
(* Model of serial_demo/main.cpp: main() opens a serial device, reads its  *)
(* line attributes, rewrites them to raw 115200 8N1, commits them, and     *)
(* then writes an incrementing decimal counter, one line per iteration,    *)
(* sleeping a fixed interval between writes.                               *)
(*                                                                         *)
(* The operating system is the environment: the outcome of open,           *)
(* tcgetattr, tcsetattr and write is chosen nondeterministically.          *)
(***************************************************************************)
EXTENDS Integers, Sequences, FiniteSets

VARIABLES
    pc,          \* position of main(): the statement about to run
    fd,          \* int fd (line 12); -1 before open and after a failed open
    isOpen,      \* whether the descriptor fd is an open handle of the process
    tty,         \* termios tty (line 18)
    devAttrs,    \* line attributes the device currently has
    count,       \* int count (line 46)
    val,         \* value of the expression count++ (line 48): the value formatted
    msg,         \* std::string msg (line 48)
    writes,      \* history: the write() calls made, with the bytes given and the result
    calls,       \* history: the open/tcgetattr/tcsetattr/close calls made, with success
    diag,        \* history: the perror() diagnostics emitted
    exitStatus   \* exit status of the process; -1 while it runs

vars == <<pc, fd, isOpen, tty, devAttrs, count, val, msg, writes, calls, diag, exitStatus>>

--------------------------------------------------------------------------
(* Bounds of the model *)

\* number of write() calls explored in one run
MaxWrites == 4

\* how many iterations before a boundary of the counter (10, 100, INT_MAX)
\* the observation of SpecLate starts
WrapBack == 2

--------------------------------------------------------------------------
(* Program constants *)

\* largest value of the 32-bit signed int count
INT_MAX == 2147483647

\* smallest value of the 32-bit signed int count
INT_MIN == (-INT_MAX) - 1

\* descriptor that a successful open() returns (lowest free one after 0, 1, 2)
FdVal == 3

\* status main() returns on a configuration failure (return 1)
EXIT_FAILURE_STATUS == 1

\* status of a process ended by abort() when the build traps signed overflow
SIGABRT_STATUS == 134

\* tty.c_cc[VMIN] and tty.c_cc[VTIME] as set by lines 31-32
VMIN_VALUE == 0
VTIME_VALUE == 5

\* B115200
B115200 == 115200

\* CSIZE mask and CS8 value of c_cflag, as sets of the two size bits
CSIZE == {"CSIZE0", "CSIZE1"}
CS8 == {"CSIZE0", "CSIZE1"}

--------------------------------------------------------------------------
(* termios *)

\* termios tty{} : value-initialised, every field zero
ZeroTermios ==
    [iflag |-> {}, oflag |-> {}, cflag |-> {}, lflag |-> {},
     ispeed |-> 0, ospeed |-> 0, vmin |-> 0, vtime |-> 0]

\* attributes a device may have when the program starts
Baselines ==
    { \* usual cooked-mode console defaults, 9600 8N1
      [iflag |-> {"ICRNL", "IXON", "BRKINT"}, oflag |-> {"OPOST", "ONLCR"},
       cflag |-> {"CSIZE0", "CSIZE1", "CREAD", "HUPCL"},
       lflag |-> {"ISIG", "ICANON", "ECHO", "ECHOE", "IEXTEN"},
       ispeed |-> 9600, ospeed |-> 9600, vmin |-> 1, vtime |-> 0],
      \* 7E2 with hardware and software flow control, break ignored
      [iflag |-> {"IGNBRK", "IXON", "IXOFF", "IXANY", "INPCK"}, oflag |-> {},
       cflag |-> {"CSIZE1", "PARENB", "PARODD", "CSTOPB", "CRTSCTS", "HUPCL"},
       lflag |-> {"ICANON"},
       ispeed |-> 19200, ospeed |-> 19200, vmin |-> 4, vtime |-> 10],
      \* already raw at the target settings
      [iflag |-> {}, oflag |-> {},
       cflag |-> {"CSIZE0", "CSIZE1", "CREAD", "CLOCAL"},
       lflag |-> {},
       ispeed |-> 115200, ospeed |-> 115200, vmin |-> 0, vtime |-> 5] }

\* mutant of Configure: line 33 assigns c_iflag = 0 instead of clearing bits
ConfigureZeroesIflag(t) ==
    LET t1 == [t  EXCEPT !.ispeed = B115200, !.ospeed = B115200]
        t2 == [t1 EXCEPT !.cflag = (((t1.cflag \ CSIZE) \cup CS8) \cup {"CLOCAL", "CREAD"})
                                    \ {"PARENB", "PARODD", "CSTOPB", "CRTSCTS"}]
        t3 == [t2 EXCEPT !.iflag = {}]
    IN  [t3 EXCEPT !.lflag = {}, !.oflag = {}, !.vmin = VMIN_VALUE, !.vtime = VTIME_VALUE]

\* mutant of Configure: line 37 (clearing CRTSCTS) is missing
ConfigureKeepsCrtscts(t) ==
    LET t1 == [t  EXCEPT !.ispeed = B115200, !.ospeed = B115200]
        t2 == [t1 EXCEPT !.cflag = (((t1.cflag \ CSIZE) \cup CS8) \cup {"CLOCAL", "CREAD"})
                                    \ {"PARENB", "PARODD", "CSTOPB"}]
        t3 == [t2 EXCEPT !.iflag = t2.iflag \ {"IGNBRK", "IXON", "IXOFF", "IXANY"}]
    IN  [t3 EXCEPT !.lflag = {}, !.oflag = {}, !.vmin = VMIN_VALUE, !.vtime = VTIME_VALUE]

\* lines 25-37: the mutation of tty, statement by statement
Configure(t) ==
    LET t1 == [t  EXCEPT !.ispeed = B115200]                                  \* 25
        t2 == [t1 EXCEPT !.ospeed = B115200]                                  \* 26
        t3 == [t2 EXCEPT !.cflag = (t2.cflag \ CSIZE) \cup CS8]               \* 27
        t4 == [t3 EXCEPT !.iflag = t3.iflag \ {"IGNBRK"}]                     \* 28
        t5 == [t4 EXCEPT !.lflag = {}]                                        \* 29
        t6 == [t5 EXCEPT !.oflag = {}]                                        \* 30
        t7 == [t6 EXCEPT !.vmin = VMIN_VALUE]                                 \* 31
        t8 == [t7 EXCEPT !.vtime = VTIME_VALUE]                               \* 32
        t9 == [t8 EXCEPT !.iflag = t8.iflag \ {"IXON", "IXOFF", "IXANY"}]     \* 33
        t10 == [t9 EXCEPT !.cflag = t9.cflag \cup {"CLOCAL", "CREAD"}]        \* 34
        t11 == [t10 EXCEPT !.cflag = t10.cflag \ {"PARENB", "PARODD"}]        \* 35
        t12 == [t11 EXCEPT !.cflag = t11.cflag \ {"CSTOPB"}]                  \* 36
        t13 == [t12 EXCEPT !.cflag = t12.cflag \ {"CRTSCTS"}]                 \* 37
    IN  t13

--------------------------------------------------------------------------
(* std::to_string(int) + "\n" *)

DigitChars == <<"0", "1", "2", "3", "4", "5", "6", "7", "8", "9">>

DigitChar(d) == DigitChars[d + 1]

RECURSIVE NatDigits(_)
\* decimal digits of n >= 0, most significant first, no leading zeros
NatDigits(n) ==
    IF n < 10 THEN <<DigitChar(n)>>
    ELSE Append(NatDigits(n \div 10), DigitChar(n % 10))

\* std::to_string(int): "%d". A negative n is printed digit by digit from
\* n itself, so that INT_MIN needs no negation.
to_string(n) ==
    IF n >= 0 THEN NatDigits(n)
    ELSE LET d == (10 - (n % 10)) % 10       \* last digit of |n|
             q == -((n + d) \div 10)         \* |n| without its last digit
         IN  IF q = 0 THEN <<"-", DigitChar(d)>>
             ELSE <<"-">> \o Append(NatDigits(q), DigitChar(d))

\* mutant of MakeMsg: the newline is not appended
MakeMsgNoNewline(v) == to_string(v)

\* line 48: std::to_string(v) + "\n"
MakeMsg(v) == Append(to_string(v), "\n")

\* line 48: count++ on a 32-bit signed int. Below INT_MAX the result is
\* count + 1. At INT_MAX the increment overflows, which is undefined: the
\* build either wraps to INT_MIN or traps (abort) before the value is used.
Incr(c) ==
    IF c < INT_MAX
    THEN {[trap |-> FALSE, next |-> c + 1]}
    ELSE {[trap |-> FALSE, next |-> INT_MIN], [trap |-> TRUE, next |-> c]}

\* line 49: what write(fd, buf, len) can return: -1 on error, else the number
\* of bytes taken, from none to all (0, 1, len-1 and len stand for the range)
WriteResults(len) == {-1, 0, 1, len - 1, len}

--------------------------------------------------------------------------
(* History helpers *)

Call(op, ok) == [op |-> op, ok |-> ok]

\* a call of op has been made
HasCallOf(op) == \E i \in 1..Len(calls) : calls[i].op = op

\* the bytes of a write() call that reached the device
Delivered(w) == IF w.res <= 0 THEN <<>> ELSE SubSeq(w.msg, 1, w.res)

--------------------------------------------------------------------------
(* State after construction: main() is about to call open *)

Init ==
    /\ pc = "open"
    /\ fd = -1
    /\ isOpen = FALSE
    /\ tty = ZeroTermios
    /\ devAttrs \in Baselines
    /\ count = 0
    /\ val = 0
    /\ msg = <<>>
    /\ writes = <<>>
    /\ calls = <<>>
    /\ diag = <<>>
    /\ exitStatus = -1

--------------------------------------------------------------------------
(* Configuration phase, lines 12-43 *)

\* mutant of Open: the result of open is not tested
OpenUnchecked ==
    /\ pc = "open"
    /\ \E ok \in BOOLEAN :
         /\ calls' = Append(calls, Call("open", ok))
         /\ fd' = IF ok THEN FdVal ELSE -1
         /\ isOpen' = ok
         /\ pc' = "tcgetattr"
    /\ UNCHANGED <<tty, devAttrs, count, val, msg, writes, diag, exitStatus>>

\* mutant of Open: the failure path returns without perror("open")
OpenSilent ==
    /\ pc = "open"
    /\ \E ok \in BOOLEAN :
         /\ calls' = Append(calls, Call("open", ok))
         /\ IF ok
            THEN /\ fd' = FdVal
                 /\ isOpen' = TRUE
                 /\ pc' = "tcgetattr"
                 /\ UNCHANGED exitStatus
            ELSE /\ fd' = -1
                 /\ isOpen' = FALSE
                 /\ exitStatus' = EXIT_FAILURE_STATUS
                 /\ pc' = "done"
    /\ UNCHANGED <<tty, devAttrs, count, val, msg, writes, diag>>

\* lines 12-16: open; on failure perror("open") and return 1
Open ==
    /\ pc = "open"
    /\ \E ok \in BOOLEAN :
         /\ calls' = Append(calls, Call("open", ok))
         /\ IF ok
            THEN /\ fd' = FdVal
                 /\ isOpen' = TRUE
                 /\ pc' = "tcgetattr"
                 /\ UNCHANGED <<diag, exitStatus>>
            ELSE /\ fd' = -1
                 /\ isOpen' = FALSE
                 /\ diag' = Append(diag, "open")
                 /\ exitStatus' = EXIT_FAILURE_STATUS
                 /\ pc' = "done"
    /\ UNCHANGED <<tty, devAttrs, count, val, msg, writes>>

\* mutant of TcGetAttr: a failed tcgetattr is tried once more
TcGetAttrRetry ==
    /\ pc = "tcgetattr"
    /\ \E ok \in BOOLEAN :
         /\ calls' = Append(calls, Call("tcgetattr", ok))
         /\ IF ok
            THEN /\ tty' = devAttrs
                 /\ pc' = "mutate"
            ELSE /\ tty' = tty
                 /\ pc' = IF HasCallOf("tcgetattr") THEN "get_failed" ELSE "tcgetattr"
    /\ UNCHANGED <<fd, isOpen, devAttrs, count, val, msg, writes, diag, exitStatus>>

\* lines 18-19: tcgetattr(fd, &tty) and the test of its result
TcGetAttr ==
    /\ pc = "tcgetattr"
    /\ \E ok \in BOOLEAN :
         /\ calls' = Append(calls, Call("tcgetattr", ok))
         /\ IF ok
            THEN /\ tty' = devAttrs
                 /\ pc' = "mutate"
            ELSE /\ tty' = tty
                 /\ pc' = "get_failed"
    /\ UNCHANGED <<fd, isOpen, devAttrs, count, val, msg, writes, diag, exitStatus>>

\* mutant of CloseAfterGetFailure: the failure path also commits tty
CloseAfterGetFailureCommit ==
    /\ pc = "get_failed"
    /\ diag' = Append(diag, "tcgetattr")
    /\ calls' = Append(calls, Call("close", isOpen))
    /\ devAttrs' = tty
    /\ isOpen' = FALSE
    /\ pc' = "get_return"
    /\ UNCHANGED <<fd, tty, count, val, msg, writes, exitStatus>>

\* lines 20-21: perror("tcgetattr"); close(fd)
CloseAfterGetFailure ==
    /\ pc = "get_failed"
    /\ diag' = Append(diag, "tcgetattr")
    /\ calls' = Append(calls, Call("close", isOpen))
    /\ isOpen' = FALSE
    /\ pc' = "get_return"
    /\ UNCHANGED <<fd, tty, devAttrs, count, val, msg, writes, exitStatus>>

\* mutant of ReturnAfterGetFailure: return 0
ReturnZeroAfterGetFailure ==
    /\ pc = "get_return"
    /\ exitStatus' = 0
    /\ pc' = "done"
    /\ UNCHANGED <<fd, isOpen, tty, devAttrs, count, val, msg, writes, calls, diag>>

\* line 22: return 1
ReturnAfterGetFailure ==
    /\ pc = "get_return"
    /\ exitStatus' = EXIT_FAILURE_STATUS
    /\ pc' = "done"
    /\ UNCHANGED <<fd, isOpen, tty, devAttrs, count, val, msg, writes, calls, diag>>

\* lines 25-37: rewrite tty
Mutate ==
    /\ pc = "mutate"
    /\ tty' = Configure(tty)
    /\ pc' = "tcsetattr"
    /\ UNCHANGED <<fd, isOpen, devAttrs, count, val, msg, writes, calls, diag, exitStatus>>

\* mutant of TcSetAttr: the result of tcsetattr is not tested
TcSetAttrUnchecked ==
    /\ pc = "tcsetattr"
    /\ \E ok \in BOOLEAN :
         /\ calls' = Append(calls, Call("tcsetattr", ok))
         /\ devAttrs' = IF ok THEN tty ELSE devAttrs
         /\ pc' = "init_count"
    /\ UNCHANGED <<fd, isOpen, tty, count, val, msg, writes, diag, exitStatus>>

\* line 39: tcsetattr(fd, TCSANOW, &tty) and the test of its result
TcSetAttr ==
    /\ pc = "tcsetattr"
    /\ \E ok \in BOOLEAN :
         /\ calls' = Append(calls, Call("tcsetattr", ok))
         /\ IF ok
            THEN /\ devAttrs' = tty
                 /\ pc' = "init_count"
            ELSE /\ devAttrs' = devAttrs
                 /\ pc' = "set_failed"
    /\ UNCHANGED <<fd, isOpen, tty, count, val, msg, writes, diag, exitStatus>>

\* mutant of CloseAfterSetFailure: the close(fd) is missing
CloseAfterSetFailureLeak ==
    /\ pc = "set_failed"
    /\ diag' = Append(diag, "tcsetattr")
    /\ pc' = "set_return"
    /\ UNCHANGED <<fd, isOpen, tty, devAttrs, count, val, msg, writes, calls, exitStatus>>

\* lines 40-41: perror("tcsetattr"); close(fd)
CloseAfterSetFailure ==
    /\ pc = "set_failed"
    /\ diag' = Append(diag, "tcsetattr")
    /\ calls' = Append(calls, Call("close", isOpen))
    /\ isOpen' = FALSE
    /\ pc' = "set_return"
    /\ UNCHANGED <<fd, tty, devAttrs, count, val, msg, writes, exitStatus>>

\* line 42: return 1
ReturnAfterSetFailure ==
    /\ pc = "set_return"
    /\ exitStatus' = EXIT_FAILURE_STATUS
    /\ pc' = "done"
    /\ UNCHANGED <<fd, isOpen, tty, devAttrs, count, val, msg, writes, calls, diag>>

--------------------------------------------------------------------------
(* Transmit loop, lines 45-51 *)

\* lines 45-46: const auto interval = ...; int count = 0;
InitCount ==
    /\ pc = "init_count"
    /\ count' = 0
    /\ pc' = "format"
    /\ UNCHANGED <<fd, isOpen, tty, devAttrs, val, msg, writes, calls, diag, exitStatus>>

\* mutant of Format: pre-increment, the value formatted is the incremented one
FormatPreIncrement ==
    /\ pc = "format"
    /\ Len(writes) < MaxWrites
    /\ \E o \in Incr(count) :
         IF o.trap
         THEN /\ exitStatus' = SIGABRT_STATUS
              /\ pc' = "done"
              /\ UNCHANGED <<count, val, msg>>
         ELSE /\ val' = o.next
              /\ count' = o.next
              /\ msg' = MakeMsg(o.next)
              /\ pc' = "write"
              /\ UNCHANGED exitStatus
    /\ UNCHANGED <<fd, isOpen, tty, devAttrs, writes, calls, diag>>

\* lines 47-48: while (true) { std::string msg = std::to_string(count++) + "\n";
\* The increment is evaluated first; the old value is what is formatted.
Format ==
    /\ pc = "format"
    /\ Len(writes) < MaxWrites
    /\ \E o \in Incr(count) :
         IF o.trap
         THEN /\ exitStatus' = SIGABRT_STATUS
              /\ pc' = "done"
              /\ UNCHANGED <<count, val, msg>>
         ELSE /\ val' = count
              /\ count' = o.next
              /\ msg' = MakeMsg(count)
              /\ pc' = "write"
              /\ UNCHANGED exitStatus
    /\ UNCHANGED <<fd, isOpen, tty, devAttrs, writes, calls, diag>>

\* mutant of Write: the counter advances only when the write did not fail
WriteCountsOnlySuccess ==
    /\ pc = "write"
    /\ \E r \in WriteResults(Len(msg)) :
         /\ writes' = Append(writes, [val |-> val, msg |-> msg, res |-> r,
                                      fd |-> fd, open |-> isOpen])
         /\ count' = IF r < 0 THEN val ELSE count
    /\ pc' = "sleep"
    /\ UNCHANGED <<fd, isOpen, tty, devAttrs, val, msg, calls, diag, exitStatus>>

\* mutant of Write: the sleep is missing, the next iteration starts at once
WriteNoSleep ==
    /\ pc = "write"
    /\ \E r \in WriteResults(Len(msg)) :
         writes' = Append(writes, [val |-> val, msg |-> msg, res |-> r,
                                   fd |-> fd, open |-> isOpen])
    /\ pc' = "format"
    /\ UNCHANGED <<fd, isOpen, tty, devAttrs, count, val, msg, calls, diag, exitStatus>>

\* mutant of Write: a failed write ends the program
WriteChecked ==
    /\ pc = "write"
    /\ \E r \in WriteResults(Len(msg)) :
         /\ writes' = Append(writes, [val |-> val, msg |-> msg, res |-> r,
                                      fd |-> fd, open |-> isOpen])
         /\ IF r < 0
            THEN pc' = "done" /\ exitStatus' = EXIT_FAILURE_STATUS
            ELSE pc' = "sleep" /\ UNCHANGED exitStatus
    /\ UNCHANGED <<fd, isOpen, tty, devAttrs, count, val, msg, calls, diag>>

\* mutant of Write: a short or failed write is tried again
WriteRetry ==
    /\ pc = "write"
    /\ \E r \in WriteResults(Len(msg)) :
         /\ writes' = Append(writes, [val |-> val, msg |-> msg, res |-> r,
                                      fd |-> fd, open |-> isOpen])
         /\ pc' = IF r < Len(msg) /\ Len(writes') < MaxWrites THEN "write" ELSE "sleep"
    /\ UNCHANGED <<fd, isOpen, tty, devAttrs, count, val, msg, calls, diag, exitStatus>>

\* line 49: write(fd, msg.c_str(), msg.size()); the result is discarded
Write ==
    /\ pc = "write"
    /\ \E r \in WriteResults(Len(msg)) :
         writes' = Append(writes, [val |-> val, msg |-> msg, res |-> r,
                                   fd |-> fd, open |-> isOpen])
    /\ pc' = "sleep"
    /\ UNCHANGED <<fd, isOpen, tty, devAttrs, count, val, msg, calls, diag, exitStatus>>

\* mutant of Sleep: the device is opened again in every iteration
SleepReopen ==
    /\ pc = "sleep"
    /\ calls' = Append(calls, Call("open", TRUE))
    /\ fd' = fd + 1
    /\ pc' = "format"
    /\ UNCHANGED <<isOpen, tty, devAttrs, count, val, msg, writes, diag, exitStatus>>

\* mutant of Sleep: the attributes are committed again in every iteration
SleepReconfigure ==
    /\ pc = "sleep"
    /\ calls' = Append(calls, Call("tcsetattr", TRUE))
    /\ devAttrs' = tty
    /\ pc' = "format"
    /\ UNCHANGED <<fd, isOpen, tty, count, val, msg, writes, diag, exitStatus>>

\* line 50: std::this_thread::sleep_for(interval); then the next iteration
Sleep ==
    /\ pc = "sleep"
    /\ pc' = "format"
    /\ UNCHANGED <<fd, isOpen, tty, devAttrs, count, val, msg, writes, calls, diag, exitStatus>>

--------------------------------------------------------------------------
(* Specifications *)

Next ==
    \/ Open
    \/ TcGetAttr
    \/ CloseAfterGetFailure
    \/ ReturnAfterGetFailure
    \/ Mutate
    \/ TcSetAttr
    \/ CloseAfterSetFailure
    \/ ReturnAfterSetFailure
    \/ InitCount
    \/ Format
    \/ Write
    \/ Sleep

\* a run of main() from its first statement
Spec == Init /\ [][Next]_vars

\* counter values at which the observation of SpecLate starts: WrapBack
\* iterations before the message grows to two digits, to three digits,
\* and before the counter reaches INT_MAX
StartCounts == {10 - WrapBack, 100 - WrapBack, INT_MAX - WrapBack}

\* A state of a run of Spec after c iterations of the loop (c in
\* StartCounts), about to start the next one. The histories writes, calls
\* and diag record what happens from this state on; the configuration
\* calls that came before are given as they must have been.
InitLate ==
    /\ pc = "format"
    /\ fd = FdVal
    /\ isOpen = TRUE
    /\ \E b \in Baselines : tty = Configure(b)
    /\ devAttrs = tty
    /\ count \in StartCounts
    /\ val = count - 1
    /\ msg = MakeMsg(val)
    /\ writes = <<>>
    /\ calls = <<Call("open", TRUE), Call("tcgetattr", TRUE), Call("tcsetattr", TRUE)>>
    /\ diag = <<>>
    /\ exitStatus = -1

NextLoop ==
    \/ Format
    \/ Write
    \/ Sleep

\* the transmit loop late in a run: as the message gains a digit, and as
\* the counter approaches and passes INT_MAX
SpecLate == InitLate /\ [][NextLoop]_vars

\* SpecLate with the scheduling of the single thread: a statement that has
\* been reached executes, a write() that is called returns, a sleep ends
SpecLateFair ==
    SpecLate /\ WF_vars(Format) /\ WF_vars(Write) /\ WF_vars(Sleep)

\* bits of c_iflag and c_cflag that a device's attributes may have set: the
\* ones lines 27-37 name, and others (ICRNL, INPCK, HUPCL) they do not
IFlagBits == {"IGNBRK", "IXON", "IXOFF", "IXANY", "ICRNL", "INPCK"}
CFlagBits ==
    {"CSIZE0", "CSIZE1", "CSTOPB", "CREAD", "PARENB", "PARODD", "HUPCL",
     "CLOCAL", "CRTSCTS"}

\* attributes a device may have when the program starts: every combination
\* of the bits above, with the output flags, local flags, speeds and control
\* characters of one of the Baselines
WideBaselines ==
    {[b EXCEPT !.iflag = i, !.cflag = c] :
        b \in Baselines, i \in SUBSET IFlagBits, c \in SUBSET CFlagBits}

\* main() about to call open, the device in any of the WideBaselines
InitCfg ==
    /\ pc = "open"
    /\ fd = -1
    /\ isOpen = FALSE
    /\ tty = ZeroTermios
    /\ devAttrs \in WideBaselines
    /\ count = 0
    /\ val = 0
    /\ msg = <<>>
    /\ writes = <<>>
    /\ calls = <<>>
    /\ diag = <<>>
    /\ exitStatus = -1

NextCfg ==
    \/ Open
    \/ TcGetAttr
    \/ CloseAfterGetFailure
    \/ ReturnAfterGetFailure
    \/ Mutate
    \/ TcSetAttr
    \/ CloseAfterSetFailure
    \/ ReturnAfterSetFailure
    \/ InitCount

\* the configuration phase (lines 12-46) over every baseline, up to the
\* entry of the transmit loop
SpecCfg == InitCfg /\ [][NextCfg]_vars

--------------------------------------------------------------------------
(* Helpers of the properties *)

LoopPcs == {"format", "write", "sleep"}

FailurePcs == {"get_failed", "get_return", "set_failed", "set_return", "done"}

HasCall(op, ok) == \E i \in 1..Len(calls) : calls[i] = Call(op, ok)

NumCalls(op) == Cardinality({i \in 1..Len(calls) : calls[i].op = op})

\* open, tcgetattr and tcsetattr were called in this order and all succeeded
ConfigSucceeded ==
    /\ Len(calls) >= 3
    /\ calls[1] = Call("open", TRUE)
    /\ calls[2] = Call("tcgetattr", TRUE)
    /\ calls[3] = Call("tcsetattr", TRUE)

\* one of open, tcgetattr, tcsetattr has failed
ConfigFailed ==
    \E i \in 1..Len(calls) : calls[i].op # "close" /\ ~calls[i].ok

--------------------------------------------------------------------------
(* C1 *)

\* C1: Startup ordering. No write() happens, and none is about to happen,
\* before open, tcgetattr and tcsetattr have all succeeded; once any of the
\* three has failed the run has made no write, is on a failure path, and when
\* the process has exited its status is set and is not zero.
C1_StartupOrdering ==
    /\ (Len(writes) > 0 \/ pc \in LoopPcs) => ConfigSucceeded
    /\ ConfigFailed =>
         /\ Len(writes) = 0
         /\ pc \in FailurePcs
         /\ pc = "done" => exitStatus > 0

\* C1 witness: a write has been made after a successful configuration
C1_Witness == Len(writes) > 0 /\ ConfigSucceeded

--------------------------------------------------------------------------
(* C2 *)

\* C2: Resource cleanup on failure. On the paths taken when tcgetattr or
\* tcsetattr fails after a successful open, the handle has been closed by
\* the time main() returns: at the return statement and after exit the
\* descriptor is no longer open, and exactly one close of the open
\* descriptor was made.
C2_CleanupOnFailure ==
    (/\ HasCall("open", TRUE)
     /\ HasCall("tcgetattr", FALSE) \/ HasCall("tcsetattr", FALSE)
     /\ pc \in {"get_return", "set_return", "done"})
    => (~isOpen /\ HasCall("close", TRUE) /\ NumCalls("close") = 1)

\* C2 witness: the process has exited after a failed tcsetattr, handle closed
C2_Witness ==
    pc = "done" /\ HasCall("tcsetattr", FALSE) /\ HasCall("close", TRUE) /\ ~isOpen

--------------------------------------------------------------------------
(* Reading a message back, as a receiver does *)

IsDigit(ch) == \E d \in 0..9 : DigitChars[d + 1] = ch

DigitVal(ch) == CHOOSE d \in 0..9 : DigitChars[d + 1] = ch

RECURSIVE ParseDigits(_, _, _)
\* value of the digit string s appended to acc, accumulated with the sign so
\* that INT_MIN is reached without passing through -INT_MIN
ParseDigits(s, acc, sign) ==
    IF s = <<>> THEN acc
    ELSE ParseDigits(Tail(s), acc * 10 + sign * DigitVal(Head(s)), sign)

\* the integer a line "<digits>\n" or "-<digits>\n" denotes
Decode(m) ==
    LET body == SubSeq(m, 1, Len(m) - 1)
    IN  IF Head(body) = "-" THEN ParseDigits(Tail(body), 0, -1)
        ELSE ParseDigits(body, 0, 1)

\* s is exactly: the base-10 digits of n >= 0, no leading zero, one "\n"
IsDecimalLineOf(s, n) ==
    /\ Len(s) >= 2
    /\ s[Len(s)] = "\n"
    /\ \A i \in 1..(Len(s) - 1) : IsDigit(s[i])
    /\ Len(s) > 2 => s[1] # "0"
    /\ Decode(s) = n

\* b = a + 1 over the integers (no int b is INT_MAX + 1)
IsSucc(a, b) == IF a = INT_MAX THEN FALSE ELSE b = a + 1

\* s is a proper prefix of t
IsProperPrefix(s, t) == Len(s) < Len(t) /\ s = SubSeq(t, 1, Len(s))

--------------------------------------------------------------------------
(* C3 *)

\* the write() call was given the whole message and took all of it
FullyWritten(w) == w.res = Len(w.msg)

\* C3: Monotonicity. For any two consecutive transmitted messages (two
\* successive write() calls that each sent their whole message, so that the
\* two lines are adjacent on the wire) with decoded values a then b,
\* b = a + 1, also when a is the largest value of the int counter.
C3_Monotonicity ==
    \A i \in 1..(Len(writes) - 1) :
        FullyWritten(writes[i]) /\ FullyWritten(writes[i + 1])
        => IsSucc(Decode(Delivered(writes[i])), Decode(Delivered(writes[i + 1])))

--------------------------------------------------------------------------
(* C4 *)

\* C4 as stated: for every counter value n >= 0 the bytes transmitted in
\* that iteration are exactly the digits of n and one newline, nothing
\* missing, whatever write() returned.
C4_TransmittedIsWholeMessage ==
    \A i \in 1..Len(writes) :
        writes[i].val >= 0 => IsDecimalLineOf(Delivered(writes[i]), writes[i].val)

\* C4 amended: for every counter value n >= 0 the bytes handed to write()
\* are exactly the base-10 digits of n with no leading zeros followed by one
\* newline; the bytes transmitted are that whole message when write()
\* returns its full length, and otherwise a proper prefix of it (empty when
\* the write fails), the rest being dropped.
C4_MessageFormat ==
    \A i \in 1..Len(writes) :
        LET w == writes[i]
        IN  w.val >= 0 =>
              /\ IsDecimalLineOf(w.msg, w.val)
              /\ w.res = Len(w.msg) => IsDecimalLineOf(Delivered(w), w.val)
              /\ w.res < Len(w.msg) => IsProperPrefix(Delivered(w), w.msg)

\* C4 witness: a three-digit message was written whole and a two-digit one short
C4_Witness ==
    /\ \E i \in 1..Len(writes) :
          writes[i].val = 100 /\ writes[i].res = Len(writes[i].msg)
    /\ \E i \in 1..Len(writes) :
          writes[i].val = 99 /\ writes[i].res = 1

--------------------------------------------------------------------------
(* C5 *)

\* C5: Stream start. On the success path the first three write attempts
\* carry exactly "0\n", "1\n", "2\n" in that order: the counter starts at 0
\* and the value formatted is the one before the increment.
C5_StreamStart ==
    /\ pc = "format" /\ Len(writes) = 0 => count = 0
    /\ pc = "write" => count = val + 1 /\ msg = MakeMsg(val)
    /\ Len(writes) >= 1 => writes[1].msg = <<"0", "\n">>
    /\ Len(writes) >= 2 => writes[2].msg = <<"1", "\n">>
    /\ Len(writes) >= 3 => writes[3].msg = <<"2", "\n">>

\* C5 witness: three writes have been attempted
C5_Witness == Len(writes) = 3 /\ writes[3].msg = <<"2", "\n">>

--------------------------------------------------------------------------
(* C6 *)

\* the step is a write() call; LastWrite is its record, in the next state
WriteStep == Len(writes') = Len(writes) + 1

\* the step is a write() call that returned -1
WriteFailedStep == WriteStep /\ writes'[Len(writes')].res = -1

\* C6 as stated: a failed write ends transmission. The loop is left only
\* by a step that is a failed write, and a failed write leaves the loop.
C6_WriteFailureEndsLoop ==
    [][/\ (pc \in LoopPcs /\ pc' \notin LoopPcs) => WriteFailedStep
       /\ WriteFailedStep => pc' \notin LoopPcs]_vars

\* C6 amended: a failed write does not end transmission. Whatever write()
\* returns, the loop goes on to the sleep and the process keeps running;
\* once started the Transmitter has no exit of its own and stops only by
\* external termination of the process, or, on a build that traps signed
\* overflow, at the increment of the counter at INT_MAX (see C10).
C6_WriteFailureDoesNotEndLoop ==
    [][/\ WriteStep => (pc' = "sleep" /\ exitStatus' = -1)
       /\ (pc \in LoopPcs /\ pc' \notin LoopPcs) => (pc = "format" /\ count = INT_MAX)]_vars

\* C6 witness: a write failed and a later iteration made the next write
C6_Witness ==
    /\ Len(writes) >= 2
    /\ writes[Len(writes) - 1].res = -1
    /\ pc = "sleep"
    /\ exitStatus = -1

--------------------------------------------------------------------------
(* C7 *)

\* C7: Fire-and-forget writes. The state after a write() call does not
\* depend on its result: the loop goes to the sleep with counter, message
\* and descriptor untouched and the process running. The attempt after a
\* short or failed write of n carries n + 1 as after a full write, and no
\* message is handed to write() twice.
C7_FireAndForget ==
    /\ [][WriteStep =>
            /\ pc' = "sleep"
            /\ exitStatus' = -1
            /\ UNCHANGED <<fd, isOpen, tty, devAttrs, count, val, msg, calls, diag>>]_vars
    /\ [](\A i \in 1..Len(writes) : \A j \in 1..Len(writes) :
            /\ j = i + 1 => writes[j].val = writes[i].val + 1
            /\ j # i => writes[j].msg # writes[i].msg)

\* C7 witness: a short write and a failed write, each followed by the next
\* value and then the sleep
C7_Witness ==
    /\ Len(writes) = 3
    /\ writes[1].res = 1
    /\ writes[2].res = -1
    /\ writes[3].val = 2
    /\ pc = "sleep"

--------------------------------------------------------------------------
(* C8 *)

\* C8: Exit status. The process never has exit status 0, and once it has
\* exited its status is positive. After a failed open, tcgetattr or
\* tcsetattr the only device operation still made is the close of the
\* handle, no write is made, the run is on the failure path of that call
\* and ends with status 1.
C8_ExitStatus ==
    /\ exitStatus # 0
    /\ pc = "done" <=> exitStatus > 0
    /\ \A i \in 1..Len(calls) :
         (calls[i].op # "close" /\ ~calls[i].ok) =>
             /\ \A j \in (i + 1)..Len(calls) : calls[j].op = "close"
             /\ Len(writes) = 0
             /\ pc \in FailurePcs
             /\ pc = "done" => exitStatus = EXIT_FAILURE_STATUS

\* C8 witness: the process has exited with status 1 after a failed tcgetattr
C8_Witness ==
    pc = "done" /\ exitStatus = 1 /\ HasCall("tcgetattr", FALSE)

--------------------------------------------------------------------------
(* C9 *)

\* C9: Configuration applied exactly once, before the first write. In every
\* state of the transmit loop, and whenever a write has been made,
\* tcsetattr has been called exactly once, that call succeeded, and the
\* device holds the attributes it committed.
C9_ConfiguredOnce ==
    (pc \in LoopPcs \/ Len(writes) > 0) =>
        /\ NumCalls("tcsetattr") = 1
        /\ HasCall("tcsetattr", TRUE)
        /\ devAttrs = tty

\* C9 witness: several writes made, still one tcsetattr call
C9_Witness == Len(writes) >= 2 /\ NumCalls("tcsetattr") = 1

--------------------------------------------------------------------------
(* C10 *)

\* C10: Counter state invariant. The counter is never negative and no step
\* lowers it, also when the 32-bit signed int that holds it overflows.
C10_CounterMonotonic ==
    [][count' >= count /\ count' >= 0]_vars

--------------------------------------------------------------------------
(* C11 *)

\* the line configuration of spec section 3, as a predicate on attributes
IsTargetConfiguration(t) ==
    /\ t.ispeed = 115200 /\ t.ospeed = 115200
    /\ {"CSIZE0", "CSIZE1"} \subseteq t.cflag                     \* 8 data bits
    /\ t.cflag \cap {"PARENB", "PARODD"} = {}                     \* no parity
    /\ "CSTOPB" \notin t.cflag                                    \* one stop bit
    /\ t.iflag \cap {"IXON", "IXOFF", "IXANY"} = {}               \* no XON/XOFF
    /\ "CRTSCTS" \notin t.cflag                                   \* no RTS/CTS
    /\ {"CLOCAL", "CREAD"} \subseteq t.cflag
    /\ t.lflag = {}
    /\ t.vmin = 0 /\ t.vtime = 5

\* C11: Configuration correctness. Whenever tcsetattr has succeeded, the
\* attributes committed to the device have, whatever baseline tcgetattr
\* returned, speed 115200 both ways, 8 data bits, no parity, one stop bit,
\* IXON/IXOFF/IXANY and CRTSCTS cleared, CLOCAL and CREAD set, every local
\* flag cleared, VMIN = 0 and VTIME = 5.
C11_ConfigurationCorrect ==
    HasCall("tcsetattr", TRUE) => IsTargetConfiguration(devAttrs)

\* C11 witness: the configuration was committed over a baseline that had
\* HUPCL and ICRNL set and is about to enter the loop
C11_Witness ==
    /\ pc = "format"
    /\ HasCall("tcsetattr", TRUE)
    /\ "HUPCL" \in devAttrs.cflag
    /\ "ICRNL" \in devAttrs.iflag
    /\ devAttrs.ospeed = 115200

--------------------------------------------------------------------------
(* C12 *)

IsConfigCall(c) == c.op # "close"

\* the open/tcgetattr/tcsetattr calls made so far, in order
ConfigCalls == SelectSeq(calls, IsConfigCall)

ConfigOrder == <<"open", "tcgetattr", "tcsetattr">>

\* C12: Strict order, no retries. The configuration calls made so far are
\* the first calls of open -> tcgetattr -> tcsetattr, each made at most once,
\* and every call but the last one made has succeeded: a step is attempted
\* only after the previous one succeeded, and a failed step is followed by no
\* further configuration call.
C12_StrictOrderNoRetry ==
    /\ Len(ConfigCalls) <= 3
    /\ \A i \in 1..Len(ConfigCalls) : ConfigCalls[i].op = ConfigOrder[i]
    /\ \A i \in 1..(Len(ConfigCalls) - 1) : ConfigCalls[i].ok

\* C12 witness: all three calls were made, the last one failed, and the
\* process has exited
C12_Witness ==
    /\ pc = "done"
    /\ Len(ConfigCalls) = 3
    /\ ~ConfigCalls[3].ok

--------------------------------------------------------------------------
(* C13 *)

\* handles of the device the process holds: successful opens not yet closed
LiveHandles ==
    Cardinality({i \in 1..Len(calls) : calls[i] = Call("open", TRUE)})
    - Cardinality({i \in 1..Len(calls) : calls[i] = Call("close", TRUE)})

\* C13: Single handle. open() is called once, as the first call of the run,
\* and never again; the process holds at most one live handle, which is the
\* descriptor fd.
C13_SingleHandle ==
    /\ NumCalls("open") = (IF pc = "open" THEN 0 ELSE 1)
    /\ LiveHandles \in {0, 1}
    /\ isOpen <=> LiveHandles = 1
    /\ isOpen => fd = FdVal

\* C13 witness: in the loop after several writes, one open call, one handle
C13_Witness ==
    /\ pc = "sleep"
    /\ Len(writes) >= 2
    /\ NumCalls("open") = 1
    /\ LiveHandles = 1

--------------------------------------------------------------------------
(* C14 *)

\* C14: Open failure scenario. When open() fails the process emits the
\* diagnostic "open", makes no tcgetattr, tcsetattr, write or close, and
\* exits with status 1. Each failure emits exactly one diagnostic, naming
\* the call that failed, before main() returns; no diagnostic is emitted as
\* long as no call has failed.
C14_Diagnostics ==
    /\ HasCall("open", FALSE) =>
         /\ diag = <<"open">>
         /\ calls = <<Call("open", FALSE)>>
         /\ writes = <<>>
         /\ pc = "done" /\ exitStatus = EXIT_FAILURE_STATUS
    /\ (HasCall("tcgetattr", FALSE) /\ pc \in {"get_return", "done"}) =>
         diag = <<"tcgetattr">>
    /\ (HasCall("tcsetattr", FALSE) /\ pc \in {"set_return", "done"}) =>
         diag = <<"tcsetattr">>
    /\ Len(diag) <= 1
    /\ ~ConfigFailed => diag = <<>>

\* C14 witness: the process has exited after a failed open
C14_Witness ==
    pc = "done" /\ diag = <<"open">> /\ calls = <<Call("open", FALSE)>>

--------------------------------------------------------------------------
(* C15 *)

\* C15 as stated: the iteration is format, write, increment, sleep, so the
\* increment of an iteration comes after its write: whenever the loop is
\* about to format, to write or to sleep, the counter has been incremented
\* once per write already made.
C15_IncrementAfterWrite ==
    pc \in LoopPcs => count = Len(writes)

\* C15 amended: every loop iteration performs, in this order, exactly one
\* increment of the counter together with one format of the value it had
\* before the increment, exactly one write attempt of that message, and
\* exactly one sleep. So when the write is attempted the counter is already
\* one more than the value written; between two consecutive write attempts
\* there is exactly one sleep followed by exactly one increment, and no
\* write attempt is issued while the thread is sleeping.
C15_IterationShape ==
    /\ [](/\ pc \in {"format", "sleep"} => count = Len(writes)
          /\ pc = "write" =>
               /\ count = Len(writes) + 1
               /\ val = Len(writes)
               /\ msg = MakeMsg(val))
    /\ [][/\ pc = "format" =>
               /\ pc' = "write"
               /\ count' = count + 1
               /\ writes' = writes
          /\ pc = "write" =>
               /\ pc' = "sleep"
               /\ WriteStep
               /\ writes'[Len(writes')].msg = msg
               /\ count' = count
          /\ pc = "sleep" =>
               /\ pc' = "format"
               /\ count' = count
               /\ writes' = writes
          /\ WriteStep => pc = "write"]_vars

\* C15 witness: the third write is about to be attempted, the counter is 3
C15_Witness ==
    pc = "write" /\ Len(writes) = 2 /\ count = 3 /\ msg = <<"2", "\n">>

--------------------------------------------------------------------------
(* C16 *)

\* C16: Unbounded transmission. Once in the loop the run never leaves it
\* for a terminal state, and for every k (up to the number of writes
\* explored) a k-th write attempt eventually occurs.
C16_UnboundedTransmission ==
    /\ [][(pc \in LoopPcs) => (pc' \in LoopPcs)]_vars
    /\ \A k \in 1..MaxWrites : (pc \in LoopPcs) ~> (Len(writes) >= k)

--------------------------------------------------------------------------
(* C17 *)

\* C17: The k-th write attempt carries the value k - 1, whatever the earlier
\* writes returned; so a failed or short write of n is followed by an
\* attempt for n + 1, and the messages that were written whole, in the order
\* written, have strictly increasing values: gaps, but no duplicate and no
\* value out of order.
C17_AttemptValues ==
    /\ \A k \in 1..Len(writes) :
          /\ writes[k].val = k - 1
          /\ Decode(writes[k].msg) = k - 1
    /\ \A i \in 1..Len(writes) : \A j \in 1..Len(writes) :
          (i < j /\ FullyWritten(writes[i]) /\ FullyWritten(writes[j]))
          => Decode(Delivered(writes[i])) < Decode(Delivered(writes[j]))

\* C17 witness: 0 written whole, 1 failed, 2 written whole: a gap
C17_Witness ==
    /\ Len(writes) = 3
    /\ FullyWritten(writes[1])
    /\ writes[2].res = -1
    /\ FullyWritten(writes[3])
    /\ Decode(Delivered(writes[3])) = 2

--------------------------------------------------------------------------
(* C18 *)

\* C18: close() is called at most once, only after a configuration failure
\* and only on the descriptor of a successful open that is still open, never
\* on the success path. From the entry of the transmit loop on, the handle
\* is open and no close has been made, and every write() was issued on the
\* open descriptor that open() returned.
C18_CloseDiscipline ==
    /\ NumCalls("close") <= 1
    /\ HasCallOf("close") =>
         /\ HasCall("close", TRUE)
         /\ HasCall("open", TRUE)
         /\ ConfigFailed
         /\ ~isOpen
    /\ pc \in (LoopPcs \cup {"init_count"}) =>
         /\ isOpen
         /\ fd = FdVal
         /\ ~HasCallOf("close")
    /\ \A k \in 1..Len(writes) : writes[k].open /\ writes[k].fd = FdVal

\* C18 witness: writes have been made on the open handle, none closed
C18_Witness ==
    /\ Len(writes) >= 2
    /\ writes[2].open
    /\ isOpen
    /\ NumCalls("close") = 0

--------------------------------------------------------------------------
(* C19 *)

\* the step is a failed tcgetattr or tcsetattr call
AttrCallFailedStep ==
    /\ Len(calls') = Len(calls) + 1
    /\ calls'[Len(calls')].op \in {"tcgetattr", "tcsetattr"}
    /\ ~calls'[Len(calls')].ok

\* C19: Frame. A step of the transmit loop changes neither the descriptor,
\* nor the handle, nor the termios structure, nor the line configuration
\* of the device, and makes no open, tcgetattr, tcsetattr or close call. A
\* step outside the loop does not change the counter. The configuration of
\* the device is changed only by a successful tcsetattr, to the structure
\* given: a failed tcgetattr or tcsetattr leaves it as it was, and after a
\* failed tcgetattr no tcsetattr is made at all.
C19_Frame ==
    /\ [][/\ (pc \in LoopPcs) => UNCHANGED <<fd, isOpen, tty, devAttrs, calls, diag>>
          /\ (pc \notin LoopPcs) => (count' = count /\ writes' = writes)
          /\ (devAttrs' # devAttrs) =>
               /\ pc = "tcsetattr"
               /\ calls' = Append(calls, Call("tcsetattr", TRUE))
               /\ devAttrs' = tty
          /\ AttrCallFailedStep => devAttrs' = devAttrs]_vars
    /\ [](HasCall("tcgetattr", FALSE) => ~HasCallOf("tcsetattr"))

\* C19 witness: loop steps have been taken after a commit that changed the
\* device's configuration
C19_Witness ==
    /\ pc = "sleep"
    /\ Len(writes) >= 2
    /\ count = 2
    /\ devAttrs = tty
    /\ devAttrs \notin Baselines

--------------------------------------------------------------------------
(* C20 *)

\* bits of c_iflag and of c_cflag that the claim allows the mutation to touch
TouchedIFlag == {"IGNBRK", "IXON", "IXOFF", "IXANY"}
TouchedCFlag ==
    {"CSIZE0", "CSIZE1", "CLOCAL", "CREAD", "PARENB", "PARODD", "CSTOPB", "CRTSCTS"}

====
